---- MODULE Spec2Model ----
(***************************************************************************)
(* A model of creduce's reduce-pointer-level pass (ReducePointerLevel.cpp): *)
(* the collection visitor, doAnalysis, HandleTranslationUnit and the        *)
(* rewrite visitor, over a small abstract program (declarations with        *)
(* types, and expressions given as chains of unary wrappers over a base).   *)
(***************************************************************************)
EXTENDS Integers, Sequences, FiniteSets, TLC

\* Deepest pointer type a declaration of the modelled programs may have.
MaxLevel == 3

\* Largest TransformationCounter the driver passes.
MaxCounter == 4

NULL == "NULL"

(***************************************************************************)
(* The program model: declarations and types.                              *)
(* A type is a sequence of constructors, outermost first:                  *)
(*   int **  is <<"ptr","ptr","int">>,  int *x[N]  is <<"arr","ptr","int">> *)
(***************************************************************************)

\* Canonical declarations of the modelled translation units.  "a", "b" are
\* variables (b an array) whose pointer depth is chosen per program, "c" is
\* the field char *c of struct S, "n" is an int variable,
\* "o" is a pointer-typed function parameter, "reg_save_area" is the field of
\* __va_list_tag that the collector skips by name.
Decls == {"a", "b", "c", "n", "o", "reg_save_area"}

\* Declarations an assigned expression may name.
ExprDecls == {"a", "b", "c", "o"}

\* Declarations the operand of an address-of may name.
AddrOfDecls == {"a", "b", "c"}

\* Each canonical declaration has two syntactic occurrences (redeclarations).
DeclOccurrences == [canon : Decls, idx : {1, 2}]

getCanonicalDecl(DD) == DD.canon

getNameAsString(DD) == DD.canon

getKind(d) ==
  CASE d \in {"a", "b", "n"} -> "Var"
    [] d \in {"c", "reg_save_area"} -> "Field"
    [] OTHER -> "ParmVar"

getParent(d) == IF d = "c" THEN "S" ELSE "__va_list_tag"

RECURSIVE Ptr(_, _)
Ptr(n, T) == IF n = 0 THEN T ELSE <<"ptr">> \o Ptr(n - 1, T)

\* The typings of the declarations: one per choice of pointer depths.
DeclTypings ==
  { [d \in Decls |->
       CASE d = "a" -> Ptr(la, <<"int">>)
         [] d = "b" -> <<"arr">> \o Ptr(lb, <<"int">>)
         [] d = "c" -> <<"ptr", "char">>
         [] d = "n" -> <<"int">>
         [] d = "o" -> <<"ptr", "int">>
         [] OTHER   -> <<"ptr", "void">>] :
    la \in 1..MaxLevel, lb \in 1..MaxLevel }

NullType == <<>>

isPointerType(Ty) == Ty # NullType /\ Head(Ty) = "ptr"

isArrayType(Ty) == Ty # NullType /\ Head(Ty) = "arr"

getPointeeType(Ty) == IF isPointerType(Ty) THEN Tail(Ty) ELSE NullType

RECURSIVE CountPointees(_, _)
CountPointees(QT, IndirectLevel) ==
  IF QT = NullType THEN IndirectLevel
  ELSE CountPointees(getPointeeType(QT), IndirectLevel + 1)

getPointerIndirectLevel(Ty) == CountPointees(getPointeeType(Ty), 0)

RECURSIVE getArrayBaseElemType(_)
getArrayBaseElemType(ArrayTy) ==
  LET ArrayElemTy == Tail(ArrayTy)
  IN IF isArrayType(ArrayElemTy) THEN getArrayBaseElemType(ArrayElemTy)
     ELSE ArrayElemTy

isVAArgField(DD) ==
  getNameAsString(DD) \in {"reg_save_area", "overflow_arg_area"}

(***************************************************************************)
(* Expressions.  An expression is a chain of unary wrappers (outermost      *)
(* first) over a base: [ops, kind, decl, ty].  ty is the type of a base     *)
(* that names no declaration (a call, pointer arithmetic, a literal).       *)
(***************************************************************************)

UnaryOpcodes == {"Deref", "AddrOf", "PostInc"}

Expr(ops, kind, decl, ty) ==
  [ops |-> ops, kind |-> kind, decl |-> decl, ty |-> ty]

DeclRef(ops, d) ==
  Expr(ops, IF getKind(d) = "Field" THEN "MemberExpr" ELSE "DeclRefExpr",
       d, NullType)

\* The class of the outermost node of E.
NodeClass(E) ==
  IF E.ops = <<>> THEN E.kind
  ELSE CASE Head(E.ops) \in UnaryOpcodes -> "UnaryOperator"
         [] Head(E.ops) = "Subscript" -> "ArraySubscriptExpr"
         [] Head(E.ops) = "Paren" -> "ParenExpr"
         [] OTHER -> "CastExpr"

getOpcode(UO) == Head(UO.ops)

\* The operand of a unary wrapper, the base of a subscript.
getSubExpr(E) == [E EXCEPT !.ops = Tail(@)]

RECURSIVE IgnoreParenCasts(_)
IgnoreParenCasts(E) ==
  IF NodeClass(E) \in {"ParenExpr", "CastExpr"}
  THEN IgnoreParenCasts(getSubExpr(E))
  ELSE E

BadType == <<"bad">>

\* The type of E under the typing T; BadType when E is ill-typed.
RECURSIVE TypeOf(_, _)
TypeOf(E, T) ==
  IF E.ops = <<>>
  THEN IF E.decl # NULL THEN T[E.decl] ELSE E.ty
  ELSE LET S == TypeOf(getSubExpr(E), T)
           op == Head(E.ops)
       IN CASE S = BadType -> BadType
            [] op \in {"Paren", "Cast"} -> S
            [] op \in {"Deref", "Subscript"} ->
                 IF isPointerType(S) \/ isArrayType(S) THEN Tail(S) ELSE BadType
            [] op = "AddrOf" -> IF isArrayType(S) THEN BadType ELSE <<"ptr">> \o S
            [] OTHER -> IF isArrayType(S) THEN BadType ELSE S

\* Wrapper chains over a named declaration.
RefChains ==
  { <<>>, <<"Paren">>, <<"Deref">>, <<"Subscript">>, <<"Deref", "Deref">>,
    <<"Cast", "Subscript", "Paren", "Deref">>, <<"Deref", "PostInc">>,
    <<"Deref", "AddrOf">> }

\* Wrapper chains over a call or over pointer arithmetic.
ValueChains == { <<"Deref">>, <<"Deref", "Paren">>, <<"Subscript">> }

\* Left-hand sides of assignments:  a, (a), *a, a[i], **a, (T)(*a)[i], *a++,
\* *&a, s.c, *f(), *(p + 1), f()[i], ...
LhsExprs ==
  { DeclRef(ops, d) : ops \in RefChains, d \in ExprDecls }
  \cup { Expr(ops, k, NULL, <<"ptr", "ptr", "int">>) :
           ops \in ValueChains, k \in {"CallExpr", "BinaryOperator"} }

\* A few left-hand sides, paired with every right-hand side.
KeyLhsExprs ==
  { DeclRef(<<>>, "a"), DeclRef(<<"Deref">>, "a"), DeclRef(<<"Subscript">>, "b"),
    DeclRef(<<>>, "c"), Expr(<<"Deref">>, "CallExpr", NULL, <<"ptr", "ptr", "int">>) }

\* Right-hand sides of a plain assignment:  o, ((T)o), *a, &a, (T)b[i], s.c,
\* f(), ((T)f()), (T)0, x ? y : z
AssignRhsExprs ==
  { DeclRef(<<>>, "o"), DeclRef(<<"Paren", "Cast">>, "o"),
    DeclRef(<<"Deref">>, "a"), DeclRef(<<"AddrOf">>, "a"),
    DeclRef(<<"Cast", "Subscript">>, "b"),
    DeclRef(<<>>, "c"),
    Expr(<<>>, "CallExpr", NULL, <<"ptr", "int">>),
    Expr(<<"Paren", "Cast">>, "CallExpr", NULL, <<"ptr", "int">>),
    Expr(<<"Cast">>, "IntegerLiteral", NULL, <<"int">>),
    Expr(<<>>, "ConditionalOperator", NULL, <<"ptr", "int">>) }

\* The right-hand sides every left-hand side is paired with.
KeyRhsExprs ==
  { Expr(<<>>, "CallExpr", NULL, <<"ptr", "int">>),
    Expr(<<"Paren", "Cast">>, "CallExpr", NULL, <<"ptr", "int">>) }

\* Right-hand sides of a compound assignment to a pointer:  p += 1, p += n,
\* p -= f()
CompoundRhsExprs ==
  { Expr(<<>>, "IntegerLiteral", NULL, <<"int">>),
    DeclRef(<<"Cast">>, "n"),
    Expr(<<>>, "CallExpr", NULL, <<"int">>) }

BinaryOperators ==
  { [opc |-> "Assign", lhs |-> L, rhs |-> R] :
      L \in LhsExprs, R \in KeyRhsExprs }
  \cup { [opc |-> "Assign", lhs |-> L, rhs |-> R] :
           L \in KeyLhsExprs, R \in AssignRhsExprs }
  \cup { [opc |-> "AddAssign", lhs |-> L, rhs |-> R] :
           L \in KeyLhsExprs, R \in CompoundRhsExprs }
  \cup { [opc |-> "Add", lhs |-> DeclRef(<<>>, "o"), rhs |-> DeclRef(<<>>, "n")],
         [opc |-> "EQ", lhs |-> DeclRef(<<>>, "a"), rhs |-> DeclRef(<<>>, "a")] }

\* Operands of address-of:  &a, &(a), &*a, &a[i], &s.c, &*f(), ...
AddrOfOperands ==
  { DeclRef(ops, d) : ops \in RefChains \ {<<"Deref", "PostInc">>},
                      d \in AddrOfDecls }
  \cup { Expr(<<"Deref">>, "CallExpr", NULL, <<"ptr", "ptr", "int">>) }

UnaryOperators ==
  { [opc |-> "AddrOf", sub |-> E] : E \in AddrOfOperands }
  \cup { [opc |-> k, sub |-> DeclRef(<<>>, "a")] : k \in {"Deref", "PostInc"} }

isAssignmentOp(BO) == BO.opc \in {"Assign", "AddAssign"}

isCompoundAssignmentOp(BO) == BO.opc = "AddAssign"

(***************************************************************************)
(* The state of one run of the pass.                                       *)
(***************************************************************************)

VARIABLES
  DeclType,              \* the program: the declared type of each declaration
  TransformationCounter, \* the target index the driver passed
  QueryInstanceOnly,     \* the driver asked for the count only
                         \* (both keep their defaults until the driver's
                         \* values are read: the collector reads neither)
  AllPtrDecls,           \* level -> the level's DeclSet, in iteration order
  VisitedDecls,
  ValidDecls,
  AddrTakenDecls,
  MaxIndirectLevel,
  ValidInstanceNum,
  TheDecl,
  TheRecordDecl,
  TransError,
  SuppressAllDiagnostics,
  Diagnostics,           \* what the diagnostics engine answered at line 294
  RewriteCalls,          \* declarations handed to rewriteVarDecl/rewriteFieldDecl
  AssertMsg,             \* the message of the TransAssert that failed, or ""
  pc                     \* where the run stands

vars ==
  << DeclType, TransformationCounter, QueryInstanceOnly, AllPtrDecls,
     VisitedDecls, ValidDecls, AddrTakenDecls, MaxIndirectLevel,
     ValidInstanceNum, TheDecl, TheRecordDecl, TransError,
     SuppressAllDiagnostics, Diagnostics, RewriteCalls, AssertMsg, pc >>

collected ==
  << AllPtrDecls, VisitedDecls, ValidDecls, AddrTakenDecls, MaxIndirectLevel >>

selection == << ValidInstanceNum, TheDecl, TheRecordDecl >>

outcome == << TransError, SuppressAllDiagnostics, Diagnostics, RewriteCalls >>

inputs == << DeclType, TransformationCounter, QueryInstanceOnly >>

Levels == 0..MaxLevel

Counters == {-1} \cup 0..MaxCounter

NoDiagnostics == [hasErrorOccurred |-> FALSE, hasFatalErrorOccurred |-> FALSE]

Init ==
  /\ DeclType \in DeclTypings
  /\ TransformationCounter = -1
  /\ QueryInstanceOnly = FALSE
  /\ AllPtrDecls = [L \in Levels |-> <<>>]
  /\ VisitedDecls = {}
  /\ ValidDecls = {}
  /\ AddrTakenDecls = {}
  /\ MaxIndirectLevel = 0
  /\ ValidInstanceNum = 0
  /\ TheDecl = NULL
  /\ TheRecordDecl = NULL
  /\ TransError = "TransSuccess"
  /\ SuppressAllDiagnostics = TRUE
  /\ Diagnostics = NoDiagnostics
  /\ RewriteCalls = {}
  /\ AssertMsg = ""
  /\ pc = "Collect"

\* A TransAssert fails: the run aborts where it stands.
Abort(msg) ==
  /\ pc' = "Aborted"
  /\ AssertMsg' = msg
  /\ UNCHANGED << inputs, collected, selection, outcome >>

(***************************************************************************)
(* Helpers of ReducePointerLevel.                                          *)
(***************************************************************************)

Elems(S) == { S[i] : i \in 1..Len(S) }

\* DeclSet::insert: a set that iterates in insertion order.
DeclSetInsert(DDSet, DD) ==
  IF DD \in Elems(DDSet) THEN DDSet ELSE Append(DDSet, DD)

\* Mutant: the declaration is not put into its level's set.
addOneDeclDropped(DD, IndirectLevel) == AllPtrDecls

addOneDecl(DD, IndirectLevel) ==
  [AllPtrDecls EXCEPT ![IndirectLevel] = DeclSetInsert(@, DD)]

Resolved(d) == [decl |-> d, assert |-> ""]

Failed(msg) == [decl |-> NULL, assert |-> msg]

getCanonicalDeclaratorDecl(E) ==
  CASE NodeClass(E) = "DeclRefExpr" -> Resolved(E.decl)
    [] NodeClass(E) = "MemberExpr" -> Resolved(E.decl)
    [] OTHER -> Failed("Bad Decl!")

RECURSIVE ignoreSubscriptExprParenCasts(_)
ignoreSubscriptExprParenCasts(E) ==
  LET NewE == IgnoreParenCasts(E)
  IN IF NodeClass(NewE) = "ArraySubscriptExpr"
     THEN ignoreSubscriptExprParenCasts(getSubExpr(NewE))
     ELSE NewE

RECURSIVE getRefDecl(_)
getRefDecl(Exp) ==
  LET E == ignoreSubscriptExprParenCasts(Exp)
  IN CASE NodeClass(E) = "DeclRefExpr" -> getCanonicalDeclaratorDecl(E)
       [] NodeClass(E) = "MemberExpr" -> getCanonicalDeclaratorDecl(E)
       [] NodeClass(E) # "UnaryOperator" -> Failed("Bad UnaryOperator!")
       [] getOpcode(E) # "Deref" -> Failed("Non-Deref Opcode!")
       [] OTHER -> getRefDecl(getSubExpr(E))

(***************************************************************************)
(* PointerLevelCollectionVisitor.                                          *)
(***************************************************************************)

\* The type VisitDeclaratorDecl looks at: arrays are reduced to their base
\* element type.
DeclaredBaseType(DD) ==
  LET Ty == DeclType[getCanonicalDecl(DD)]
  IN IF isArrayType(Ty) THEN getArrayBaseElemType(Ty) ELSE Ty

\* Mutant: the test of VisitedDecls is missing.
SkipsDeclaratorDeclUnvisited(DD) ==
  \/ isVAArgField(DD)
  \/ getKind(getCanonicalDecl(DD)) \notin {"Field", "Var"}
  \/ ~isPointerType(DeclaredBaseType(DD))

\* The early returns of VisitDeclaratorDecl.
SkipsDeclaratorDecl(DD) ==
  \/ isVAArgField(DD)
  \/ getKind(getCanonicalDecl(DD)) \notin {"Field", "Var"}
  \/ ~isPointerType(DeclaredBaseType(DD))
  \/ getCanonicalDecl(DD) \in VisitedDecls

\* Mutant: MaxIndirectLevel takes the level of the last registration.
VisitDeclaratorDeclLastLevel(DD) ==
  /\ pc = "Collect"
  /\ IF SkipsDeclaratorDecl(DD)
     THEN UNCHANGED vars
     ELSE LET CanonicalDD == getCanonicalDecl(DD)
              IndirectLevel == getPointerIndirectLevel(DeclaredBaseType(DD))
          IN /\ ValidDecls' = ValidDecls \cup {CanonicalDD}
             /\ VisitedDecls' = VisitedDecls \cup {CanonicalDD}
             /\ MaxIndirectLevel' = IndirectLevel
             /\ AllPtrDecls' = addOneDecl(CanonicalDD, IndirectLevel)
             /\ UNCHANGED << inputs, AddrTakenDecls, selection, outcome,
                             AssertMsg, pc >>

VisitDeclaratorDecl(DD) ==
  /\ pc = "Collect"
  /\ IF SkipsDeclaratorDecl(DD)
     THEN UNCHANGED vars
     ELSE LET CanonicalDD == getCanonicalDecl(DD)
              IndirectLevel == getPointerIndirectLevel(DeclaredBaseType(DD))
          IN IF ~(IndirectLevel > 0)
             THEN /\ ValidDecls' = ValidDecls \cup {CanonicalDD}
                  /\ VisitedDecls' = VisitedDecls \cup {CanonicalDD}
                  /\ pc' = "Aborted"
                  /\ AssertMsg' = "Bad indirect level!"
                  /\ UNCHANGED << inputs, AllPtrDecls, AddrTakenDecls,
                                  MaxIndirectLevel, selection, outcome >>
             ELSE /\ ValidDecls' = ValidDecls \cup {CanonicalDD}
                  /\ VisitedDecls' = VisitedDecls \cup {CanonicalDD}
                  /\ MaxIndirectLevel' =
                       IF IndirectLevel > MaxIndirectLevel
                       THEN IndirectLevel ELSE MaxIndirectLevel
                  /\ AllPtrDecls' = addOneDecl(CanonicalDD, IndirectLevel)
                  /\ UNCHANGED << inputs, AddrTakenDecls, selection, outcome,
                                  AssertMsg, pc >>

\* Mutant: the opcode of the unary operator is not tested.
AddrTakenOperandAnyOpcode(UO) ==
  LET SubE == IgnoreParenCasts(UO.sub)
  IN IF NodeClass(SubE) \notin {"DeclRefExpr", "MemberExpr"} THEN NULL
     ELSE getCanonicalDeclaratorDecl(SubE).decl

\* The operand VisitUnaryOperator records, NULL when it returns early.
AddrTakenOperand(UO) ==
  LET SubE == IgnoreParenCasts(UO.sub)
  IN IF UO.opc # "AddrOf" THEN NULL
     ELSE IF NodeClass(SubE) \notin {"DeclRefExpr", "MemberExpr"} THEN NULL
     ELSE getCanonicalDeclaratorDecl(SubE).decl

VisitUnaryOperator(UO) ==
  /\ pc = "Collect"
  /\ TypeOf(UO.sub, DeclType) # BadType
  /\ AddrTakenDecls' =
       IF AddrTakenOperand(UO) = NULL THEN AddrTakenDecls
       ELSE AddrTakenDecls \cup {AddrTakenOperand(UO)}
  /\ UNCHANGED << inputs, AllPtrDecls, VisitedDecls, ValidDecls,
                  MaxIndirectLevel, selection, outcome, AssertMsg, pc >>

\* Mutant: a call is taken to be safe in place of a subscript.
IsSafeRhsCall(Rhs) ==
  NodeClass(Rhs) \in {"DeclRefExpr", "UnaryOperator", "CallExpr"}

\* The right-hand sides VisitBinaryOperator takes to be safe.
IsSafeRhs(Rhs) ==
  NodeClass(Rhs) \in {"DeclRefExpr", "UnaryOperator", "ArraySubscriptExpr"}

\* What VisitBinaryOperator does to ValidDecls, and the assertion it fails.
VisitBinaryOperatorOutcome(BO) ==
  LET Rhs == IgnoreParenCasts(BO.rhs)
      DD == getRefDecl(BO.lhs)
  IN IF ~isAssignmentOp(BO) /\ ~isCompoundAssignmentOp(BO)
     THEN [ValidDecls |-> ValidDecls, assert |-> ""]
     ELSE IF ~isPointerType(TypeOf(BO.lhs, DeclType))
     THEN [ValidDecls |-> ValidDecls, assert |-> ""]
     ELSE IF IsSafeRhs(Rhs)
     THEN [ValidDecls |-> ValidDecls, assert |-> ""]
     ELSE IF DD.assert # ""
     THEN [ValidDecls |-> ValidDecls, assert |-> DD.assert]
     ELSE [ValidDecls |-> ValidDecls \ {DD.decl}, assert |-> ""]

WellTyped(BO) ==
  /\ TypeOf(BO.lhs, DeclType) # BadType
  /\ TypeOf(BO.rhs, DeclType) # BadType

VisitBinaryOperator(BO) ==
  /\ pc = "Collect"
  /\ WellTyped(BO)
  /\ LET out == VisitBinaryOperatorOutcome(BO)
     IN IF out.assert # ""
        THEN Abort(out.assert)
        ELSE /\ ValidDecls' = out.ValidDecls
             /\ UNCHANGED << inputs, AllPtrDecls, VisitedDecls, AddrTakenDecls,
                             MaxIndirectLevel, selection, outcome, AssertMsg,
                             pc >>

(***************************************************************************)
(* doAnalysis.  The running state of the two loops is the record           *)
(* [ValidInstanceNum, TheDecl]; Counter is TransformationCounter.          *)
(***************************************************************************)

\* Mutant: the first loop filters address-taken declarations as well.
SkipsAtMaxLevelAddrTaken(I) == ~(I \in ValidDecls) \/ I \in AddrTakenDecls

\* The filter of the first loop (the DeclSet of MaxIndirectLevel).
SkipsAtMaxLevel(I) == ~(I \in ValidDecls)

\* Mutant: the second loop forgets the address-taken test.
SkipsBelowMaxLevelValidOnly(I) == ~(I \in ValidDecls)

\* The filter of the second loop (the levels below MaxIndirectLevel).
SkipsBelowMaxLevel(I) == ~(I \in ValidDecls) \/ I \in AddrTakenDecls

\* Mutant: the selection is assigned at the index and again right after it.
CountOneDeclTwice(I, Counter, st) ==
  LET Num == st.ValidInstanceNum + 1
  IN [ValidInstanceNum |-> Num,
      TheDecl |-> IF Counter = Num \/ Counter + 1 = Num
                  THEN I ELSE st.TheDecl]

\* Mutant: the selection test is <= instead of ==.
CountOneDeclUpTo(I, Counter, st) ==
  LET Num == st.ValidInstanceNum + 1
  IN [ValidInstanceNum |-> Num,
      TheDecl |-> IF Counter <= Num THEN I ELSE st.TheDecl]

\* One iteration of either loop on a declaration that is not skipped.
CountOneDecl(I, Counter, st) ==
  LET Num == st.ValidInstanceNum + 1
  IN [ValidInstanceNum |-> Num,
      TheDecl |-> IF Counter = Num THEN I ELSE st.TheDecl]

\* Mutant: a DeclSet is walked from its last member to its first.
RECURSIVE ScanDeclSetDownFrom(_, _, _, _, _)
ScanDeclSetDownFrom(DeclSet, i, AtMaxLevel, Counter, st) ==
  IF i < 1 THEN st
  ELSE IF (IF AtMaxLevel THEN SkipsAtMaxLevel(DeclSet[i])
           ELSE SkipsBelowMaxLevel(DeclSet[i]))
  THEN ScanDeclSetDownFrom(DeclSet, i - 1, AtMaxLevel, Counter, st)
  ELSE ScanDeclSetDownFrom(DeclSet, i - 1, AtMaxLevel, Counter,
                           CountOneDecl(DeclSet[i], Counter, st))

ScanDeclSetBackwards(DeclSet, i, AtMaxLevel, Counter, st) ==
  ScanDeclSetDownFrom(DeclSet, Len(DeclSet), AtMaxLevel, Counter, st)

\* The iteration of one DeclSet from position i on.
RECURSIVE ScanDeclSet(_, _, _, _, _)
ScanDeclSet(DeclSet, i, AtMaxLevel, Counter, st) ==
  IF i > Len(DeclSet) THEN st
  ELSE IF (IF AtMaxLevel THEN SkipsAtMaxLevel(DeclSet[i])
           ELSE SkipsBelowMaxLevel(DeclSet[i]))
  THEN ScanDeclSet(DeclSet, i + 1, AtMaxLevel, Counter, st)
  ELSE ScanDeclSet(DeclSet, i + 1, AtMaxLevel, Counter,
                   CountOneDecl(DeclSet[i], Counter, st))

\* Mutant: the lower levels are walked from level 1 upwards.
RECURSIVE ScanLevelsUpwards(_, _, _, _)
ScanLevelsUpwards(Idx, Last, Counter, st) ==
  IF Idx > Last THEN st
  ELSE ScanLevelsUpwards(Idx + 1, Last, Counter,
                         ScanDeclSet(AllPtrDecls[Idx], 1, FALSE, Counter, st))

ScanLowerLevelsAscending(Idx, Counter, st) ==
  ScanLevelsUpwards(1, Idx, Counter, st)

\* for (Idx = MaxIndirectLevel - 1; Idx > 0; --Idx)
RECURSIVE ScanLowerLevels(_, _, _)
ScanLowerLevels(Idx, Counter, st) ==
  IF ~(Idx > 0) THEN st
  ELSE ScanLowerLevels(Idx - 1, Counter,
                       ScanDeclSet(AllPtrDecls[Idx], 1, FALSE, Counter, st))

doAnalysis(Counter, st) ==
  ScanLowerLevels(MaxIndirectLevel - 1, Counter,
                  ScanDeclSet(AllPtrDecls[MaxIndirectLevel], 1, TRUE,
                              Counter, st))

(***************************************************************************)
(* HandleTranslationUnit, in the order of its statements.                  *)
(***************************************************************************)

\* doAnalysis();  Counter and Query are the values the driver stored in
\* TransformationCounter and QueryInstanceOnly before the run.
RunAnalysis(Counter, Query) ==
  /\ pc = "Collect"
  /\ TransformationCounter' = Counter
  /\ QueryInstanceOnly' = Query
  /\ LET st == doAnalysis(Counter, [ValidInstanceNum |-> ValidInstanceNum,
                                    TheDecl |-> TheDecl])
     IN /\ ValidInstanceNum' = st.ValidInstanceNum
        /\ TheDecl' = st.TheDecl
  /\ pc' = "Analyzed"
  /\ UNCHANGED << DeclType, collected, TheRecordDecl, outcome, AssertMsg >>

\* Mutant: the query test is missing.
NeverReturnsAfterAnalysis == FALSE

\* The test of  if (QueryInstanceOnly) return;
ReturnsAfterAnalysis == QueryInstanceOnly

QueryReturn ==
  /\ pc = "Analyzed"
  /\ ReturnsAfterAnalysis
  /\ pc' = "QueryReturn"
  /\ UNCHANGED << inputs, collected, selection, outcome, AssertMsg >>

\* Mutant: the range test is off by one.
ExceedsInstancesOffByOne == TransformationCounter > ValidInstanceNum + 1

\* The test of  if (TransformationCounter > ValidInstanceNum)
ExceedsInstances == TransformationCounter > ValidInstanceNum

\* if (TransformationCounter > ValidInstanceNum) { TransError = ...; return; }
MaxInstanceReturn ==
  /\ pc = "Analyzed"
  /\ ~ReturnsAfterAnalysis
  /\ ExceedsInstances
  /\ TransError' = "TransMaxInstanceError"
  /\ pc' = "MaxInstanceReturn"
  /\ UNCHANGED << inputs, collected, selection, SuppressAllDiagnostics,
                  Diagnostics, RewriteCalls, AssertMsg >>

setRecordDecl ==
  IF getKind(TheDecl) # "Field" THEN TheRecordDecl ELSE getParent(TheDecl)

\* Mutant: the traversal starts without the test of TheDecl.
BeginRewriteUnasserted ==
  /\ pc = "Analyzed"
  /\ ~ReturnsAfterAnalysis
  /\ ~ExceedsInstances
  /\ SuppressAllDiagnostics' = FALSE
  /\ TheRecordDecl' = setRecordDecl
  /\ pc' = "Rewrite"
  /\ UNCHANGED << inputs, collected, ValidInstanceNum, TheDecl,
                  TransError, Diagnostics, RewriteCalls, AssertMsg >>

\* setSuppressAllDiagnostics(false); TransAssert(TheDecl); setRecordDecl();
BeginRewrite ==
  /\ pc = "Analyzed"
  /\ ~ReturnsAfterAnalysis
  /\ ~ExceedsInstances
  /\ IF TheDecl = NULL
     THEN /\ SuppressAllDiagnostics' = FALSE
          /\ pc' = "Aborted"
          /\ AssertMsg' = "NULL TheDecl!"
          /\ UNCHANGED << inputs, collected, selection, TransError,
                          Diagnostics, RewriteCalls >>
     ELSE /\ SuppressAllDiagnostics' = FALSE
          /\ TheRecordDecl' = setRecordDecl
          /\ pc' = "Rewrite"
          /\ UNCHANGED << inputs, collected, ValidInstanceNum, TheDecl,
                          TransError, Diagnostics, RewriteCalls, AssertMsg >>

(***************************************************************************)
(* PointerLevelRewriteVisitor.  rewriteVarDecl and rewriteFieldDecl have    *)
(* empty bodies: they leave the declared types as they are.                *)
(***************************************************************************)

rewriteVarDecl(VD) == DeclType

rewriteFieldDecl(FD) == DeclType

RewriteVisitFieldDecl(FD) ==
  /\ pc = "Rewrite"
  /\ getKind(getCanonicalDecl(FD)) = "Field"
  /\ IF getKind(TheDecl) = "Field" /\ getCanonicalDecl(FD) = TheDecl
     THEN /\ DeclType' = rewriteFieldDecl(FD)
          /\ RewriteCalls' = RewriteCalls \cup {getCanonicalDecl(FD)}
     ELSE UNCHANGED << DeclType, RewriteCalls >>
  /\ UNCHANGED << TransformationCounter, QueryInstanceOnly, collected,
                  selection, TransError, SuppressAllDiagnostics, Diagnostics,
                  AssertMsg, pc >>

\* Past the first test VisitVarDecl only reaches rewriteArrayInit and
\* rewriteRecordInit, whose bodies are empty too.
RewriteVisitVarDecl(VD) ==
  /\ pc = "Rewrite"
  /\ getKind(getCanonicalDecl(VD)) \in {"Var", "ParmVar"}
  /\ IF getKind(TheDecl) \in {"Var", "ParmVar"} /\ getCanonicalDecl(VD) = TheDecl
     THEN /\ DeclType' = rewriteVarDecl(VD)
          /\ RewriteCalls' = RewriteCalls \cup {getCanonicalDecl(VD)}
     ELSE UNCHANGED << DeclType, RewriteCalls >>
  /\ UNCHANGED << TransformationCounter, QueryInstanceOnly, collected,
                  selection, TransError, SuppressAllDiagnostics, Diagnostics,
                  AssertMsg, pc >>

\* Mutant: only hasErrorOccurred is consulted.
ErrorAfterRewriteNoFatal(diag) ==
  IF diag.hasErrorOccurred THEN "TransInternalError" ELSE TransError

\* The outcome HandleTranslationUnit derives from the diagnostics.
ErrorAfterRewrite(diag) ==
  IF diag.hasErrorOccurred \/ diag.hasFatalErrorOccurred
  THEN "TransInternalError" ELSE TransError

\* if (hasErrorOccurred() || hasFatalErrorOccurred()) TransError = ...;
CheckDiagnostics(diag) ==
  /\ pc = "Rewrite"
  /\ Diagnostics' = diag
  /\ TransError' = ErrorAfterRewrite(diag)
  /\ pc' = "Finished"
  /\ UNCHANGED << inputs, collected, selection, SuppressAllDiagnostics,
                  RewriteCalls, AssertMsg >>

Next ==
  \/ \E DD \in DeclOccurrences : VisitDeclaratorDecl(DD)
  \/ \E UO \in UnaryOperators : VisitUnaryOperator(UO)
  \/ \E BO \in BinaryOperators : VisitBinaryOperator(BO)
  \/ \E Counter \in Counters, Query \in BOOLEAN : RunAnalysis(Counter, Query)
  \/ QueryReturn
  \/ MaxInstanceReturn
  \/ BeginRewrite
  \/ \E FD \in DeclOccurrences : RewriteVisitFieldDecl(FD)
  \/ \E VD \in DeclOccurrences : RewriteVisitVarDecl(VD)
  \/ \E diag \in [hasErrorOccurred : BOOLEAN, hasFatalErrorOccurred : BOOLEAN] :
       CheckDiagnostics(diag)

Spec == Init /\ [][Next]_vars

(***************************************************************************)
(* Vocabulary of the properties.                                           *)
(***************************************************************************)

RECURSIVE StripArrays(_)
StripArrays(T) ==
  IF T # <<>> /\ Head(T) = "arr" THEN StripArrays(Tail(T)) ELSE T

RECURSIVE LeadingPtrs(_)
LeadingPtrs(T) ==
  IF T # <<>> /\ Head(T) = "ptr" THEN 1 + LeadingPtrs(Tail(T)) ELSE 0

\* The indirection level of declaration d in the program as it stands.
IndirectionLevel(d) == LeadingPtrs(StripArrays(DeclType[d]))

Registered == UNION { Elems(AllPtrDecls[L]) : L \in Levels }

\* The level d was registered at.
RegistryLevel(d) == CHOOSE L \in Levels : d \in Elems(AllPtrDecls[L])

\* The declarations that survive the two tiers of filtering.
Eligible ==
  { d \in ValidDecls :
      \/ IndirectionLevel(d) = MaxIndirectLevel
      \/ /\ 1 <= IndirectionLevel(d)
         /\ IndirectionLevel(d) < MaxIndirectLevel
         /\ d \notin AddrTakenDecls }

\* doAnalysis has run in this run.
AnalysisDone ==
  \/ pc \in {"Analyzed", "QueryReturn", "MaxInstanceReturn", "Rewrite", "Finished"}
  \/ pc = "Aborted" /\ AssertMsg = "NULL TheDecl!"

FreshSelection == [ValidInstanceNum |-> 0, TheDecl |-> NULL]

\* The declaration doAnalysis selects on the collected program for index k.
SelectedAt(k) == doAnalysis(k, FreshSelection).TheDecl

\* The count doAnalysis reports on the collected program for index k.
CountAt(k) == doAnalysis(k, FreshSelection).ValidInstanceNum

(***************************************************************************)
(* C1.  After doAnalysis, ValidInstanceNum is the number of declarations   *)
(* in ValidDecls that are at MaxIndirectLevel, or at a level from 1 up to  *)
(* MaxIndirectLevel - 1 and not address-taken: each is counted once and    *)
(* nothing else is counted.                                                *)
(***************************************************************************)
C1_CountIsEligible ==
  AnalysisDone => ValidInstanceNum = Cardinality(Eligible)

\* Two declarations counted, a third registered at a lower level and left out
\* because its address is taken, although it is still in ValidDecls.
C1_Witness ==
  /\ pc = "Analyzed"
  /\ ValidInstanceNum = 2
  /\ \E d \in ValidDecls \cap AddrTakenDecls :
       IndirectionLevel(d) < MaxIndirectLevel
  /\ \E d \in ValidDecls \cap AddrTakenDecls :
       IndirectionLevel(d) = MaxIndirectLevel

C3_AddressTakenTiers ==
  AnalysisDone =>
    LET N == ValidInstanceNum
    IN /\ \A d \in ValidDecls :
            IndirectionLevel(d) = MaxIndirectLevel =>
              \E k \in 1..N : SelectedAt(k) = d
       /\ \A d \in AddrTakenDecls :
            IndirectionLevel(d) < MaxIndirectLevel =>
              /\ \A k \in Counters : SelectedAt(k) # d
              /\ TheDecl # d
       /\ Cardinality({ SelectedAt(k) : k \in 1..N }) = N

\* The run selected an address-taken declaration of the deepest level while an
\* address-taken declaration of a lower level is still in ValidDecls.
C3_Witness ==
  /\ pc = "Analyzed"
  /\ TheDecl \in AddrTakenDecls
  /\ IndirectionLevel(TheDecl) = MaxIndirectLevel
  /\ \E d \in ValidDecls \cap AddrTakenDecls :
       IndirectionLevel(d) < MaxIndirectLevel

(***************************************************************************)
(* C4.  While collecting, for every assignment (plain or compound) the     *)
(* visit leaves ValidDecls as it is when the left-hand side is not         *)
(* pointer-typed, or when the right-hand side without its parentheses and  *)
(* casts is a direct reference, a unary operator or a subscript; for any   *)
(* other right-hand side it removes the declaration the left-hand side     *)
(* resolves to (the declaration named under its parentheses, casts,        *)
(* subscripts and dereferences) and nothing else.                          *)
(***************************************************************************)

\* The declaration a left-hand side names under parentheses, casts,
\* subscripts and dereferences; NULL when it names none that way.
LhsDeclaration(E) ==
  IF /\ E.decl # NULL
     /\ \A i \in 1..Len(E.ops) :
          E.ops[i] \in {"Paren", "Cast", "Subscript", "Deref"}
  THEN E.decl ELSE NULL

RhsShapeIsSafe(BO) ==
  LET R == IgnoreParenCasts(BO.rhs)
  IN \/ R.ops = <<>> /\ R.kind = "DeclRefExpr"
     \/ R.ops # <<>> /\ Head(R.ops) \in UnaryOpcodes \cup {"Subscript"}

C5_State ==
  (AnalysisDone /\ ~QueryInstanceOnly /\ TransformationCounter > ValidInstanceNum) =>
    /\ TheDecl = NULL
    /\ pc \in {"Analyzed", "MaxInstanceReturn"}
    /\ pc = "MaxInstanceReturn" => TransError = "TransMaxInstanceError"
    /\ RewriteCalls = {}
    /\ TheRecordDecl = NULL
    /\ \A d \in Registered : IndirectionLevel(d) = RegistryLevel(d)

C5_Step ==
  (pc = "Analyzed" /\ ~QueryInstanceOnly /\ TransformationCounter > ValidInstanceNum) =>
    (pc' = "MaxInstanceReturn" /\ TransError' = "TransMaxInstanceError")

C5_MaxInstanceError == []C5_State /\ [][C5_Step]_vars

\* apply(count + 1) on a program with two eligible declarations has returned
\* the max-instance error.
C5_Witness ==
  /\ pc = "MaxInstanceReturn"
  /\ ValidInstanceNum = 2
  /\ TransformationCounter = ValidInstanceNum + 1
  /\ TransError = "TransMaxInstanceError"

(***************************************************************************)
(* C6 as stated.  In a count-only run TheDecl is unset in every reachable  *)
(* state, whatever the target index.                                       *)
(***************************************************************************)
C6_NeverSelectsInQueryMode == QueryInstanceOnly => TheDecl = NULL

(***************************************************************************)
(* C6 amended.  A count-only run does collection and doAnalysis only: it   *)
(* returns right after the analysis with the count of eligible             *)
(* declarations, reports no error and never starts the rewrite.  TheDecl   *)
(* stays unset when the target index is outside 1..count; with an index    *)
(* inside 1..count doAnalysis records the declaration of that index.       *)
(***************************************************************************)
C6_QueryMode ==
  QueryInstanceOnly =>
    /\ pc \in {"Analyzed", "QueryReturn"}
    /\ ValidInstanceNum = Cardinality(Eligible)
    /\ TransError = "TransSuccess"
    /\ RewriteCalls = {}
    /\ TheRecordDecl = NULL
    /\ SuppressAllDiagnostics
    /\ IF TransformationCounter \in 1..ValidInstanceNum
       THEN TheDecl \in Eligible
       ELSE TheDecl = NULL

\* A count-only run has returned with count 2 and an index beyond the count.
C6_Witness ==
  /\ pc = "QueryReturn"
  /\ QueryInstanceOnly
  /\ ValidInstanceNum = 2
  /\ TransformationCounter = 4
  /\ TheDecl = NULL

(***************************************************************************)
(* C7.  The index order is by descending level: of two indices in          *)
(* 1..count, the one that selects the declaration of the greater           *)
(* indirection level is the smaller.                                       *)
(***************************************************************************)
C7_DeepestFirst ==
  AnalysisDone =>
    \A k1, k2 \in 1..ValidInstanceNum :
      IndirectionLevel(SelectedAt(k1)) > IndirectionLevel(SelectedAt(k2)) =>
        k1 < k2

\* Three eligible declarations on three levels, the two shallower ones
\* registered before the deepest.
C7_Witness ==
  /\ pc = "Analyzed"
  /\ ValidInstanceNum = 3
  /\ IndirectionLevel(SelectedAt(1)) = 3
  /\ IndirectionLevel(SelectedAt(2)) = 2
  /\ IndirectionLevel(SelectedAt(3)) = 1
  /\ TheDecl = SelectedAt(3)

(***************************************************************************)
(* C8.  After a successful apply(k) with 1 <= k <= count whose traversal   *)
(* met the selected declaration, that declaration has one pointer level    *)
(* fewer than it was registered with, and every other registered           *)
(* declaration has the level it was registered with.                       *)
(***************************************************************************)
C8_SelectedLevelReduced ==
  (/\ pc = "Finished"
   /\ TransError = "TransSuccess"
   /\ TransformationCounter \in 1..ValidInstanceNum
   /\ TheDecl \in RewriteCalls) =>
    /\ IndirectionLevel(TheDecl) = RegistryLevel(TheDecl) - 1
    /\ \A d \in Registered \ {TheDecl} : IndirectionLevel(d) = RegistryLevel(d)

(***************************************************************************)
(* C9.  No TransAssert fails while the collector visits declarations,      *)
(* address-of operators and assignments, nor in doAnalysis: the run does   *)
(* not abort before the analysis is done.                                  *)
(***************************************************************************)
C9_CollectionNeverAborts == pc = "Aborted" => AssertMsg = "NULL TheDecl!"

(***************************************************************************)
(* C10.  When the rewrite traversal is over the outcome is                 *)
(* TransInternalError if the diagnostics report an error or a fatal error  *)
(* and TransSuccess otherwise; TransInternalError is the outcome of no run *)
(* that did not go through the rewrite traversal.                          *)
(***************************************************************************)
C10_PostRewriteOutcome ==
  /\ pc = "Finished" =>
       TransError = IF \/ Diagnostics.hasErrorOccurred
                       \/ Diagnostics.hasFatalErrorOccurred
                    THEN "TransInternalError" ELSE "TransSuccess"
  /\ TransError = "TransInternalError" =>
       /\ pc = "Finished"
       /\ ~QueryInstanceOnly
       /\ TheDecl # NULL
       /\ ~SuppressAllDiagnostics
  /\ pc \in {"Collect", "Analyzed", "QueryReturn", "Rewrite", "Aborted"} =>
       TransError = "TransSuccess"

\* The traversal rewrote the selected declaration and the diagnostics then
\* reported a fatal error only.
C10_Witness ==
  /\ pc = "Finished"
  /\ TransError = "TransInternalError"
  /\ Diagnostics.hasFatalErrorOccurred
  /\ ~Diagnostics.hasErrorOccurred
  /\ TheDecl \in RewriteCalls

(***************************************************************************)
(* C11.  As the description of the pass states it: a declaration           *)
(* registered below MaxIndirectLevel whose address is taken is selected by *)
(* no index, and the visit of an assignment whose pointer-typed left-hand  *)
(* side names a declaration registered below MaxIndirectLevel and whose    *)
(* right-hand side is not a UnaryOperator leaves that declaration out of   *)
(* ValidDecls.                                                             *)
(***************************************************************************)
RhsIsUnaryOperator(BO) == NodeClass(IgnoreParenCasts(BO.rhs)) = "UnaryOperator"

C11_DescribedIneligibility ==
  pc = "Collect" =>
    /\ \A d \in AddrTakenDecls \cap Registered :
         RegistryLevel(d) < MaxIndirectLevel =>
           \A k \in Counters : SelectedAt(k) # d
    /\ \A BO \in BinaryOperators :
         (/\ WellTyped(BO)
          /\ BO.opc \in {"Assign", "AddAssign"}
          /\ isPointerType(TypeOf(BO.lhs, DeclType))
          /\ LhsDeclaration(BO.lhs) \in Registered
          /\ RegistryLevel(LhsDeclaration(BO.lhs)) < MaxIndirectLevel
          /\ ~RhsIsUnaryOperator(BO)) =>
           LhsDeclaration(BO.lhs) \notin VisitBinaryOperatorOutcome(BO).ValidDecls

(***************************************************************************)
(* C12.  Within one indirection level the indices follow the order of      *)
(* registration: a registration appends the declaration behind everything  *)
(* its level holds and no step reorders a level, and after doAnalysis, of  *)
(* two eligible declarations of one level the one registered earlier is    *)
(* selected by the smaller index.                                          *)
(***************************************************************************)

\* The index that selects the eligible declaration d.
IndexOf(d) == CHOOSE k \in 1..ValidInstanceNum : SelectedAt(k) = d

C12_State ==
  AnalysisDone =>
    \A L \in 1..MaxLevel :
      \A i, j \in 1..Len(AllPtrDecls[L]) :
        (/\ i < j
         /\ AllPtrDecls[L][i] \in Eligible
         /\ AllPtrDecls[L][j] \in Eligible) =>
          IndexOf(AllPtrDecls[L][i]) < IndexOf(AllPtrDecls[L][j])

C12_Step ==
  \A L \in Levels :
    /\ Len(AllPtrDecls'[L]) >= Len(AllPtrDecls[L])
    /\ SubSeq(AllPtrDecls'[L], 1, Len(AllPtrDecls[L])) = AllPtrDecls[L]

C13_State ==
  /\ pc \in {"Rewrite", "Finished"} =>
       /\ ~QueryInstanceOnly
       /\ TransformationCounter <= ValidInstanceNum
       /\ TheDecl # NULL
       /\ TheDecl = SelectedAt(TransformationCounter)
       /\ ValidInstanceNum = CountAt(TransformationCounter)
  /\ RewriteCalls # {} => pc \in {"Rewrite", "Finished"}

C13_Step ==
  /\ (pc' = "Rewrite" /\ pc # "Rewrite") => pc = "Analyzed"
  /\ pc' = "Analyzed" => pc \in {"Collect", "Analyzed"}
  /\ pc' = "Collect" => pc = "Collect"
  /\ collected' # collected => (pc = "Collect" /\ pc' = "Collect")
  /\ << ValidInstanceNum, TheDecl >>' # << ValidInstanceNum, TheDecl >> =>
       (pc = "Collect" /\ pc' = "Analyzed")
  /\ RewriteCalls' # RewriteCalls => (pc = "Rewrite" /\ pc' = "Rewrite")
  /\ pc \in {"Rewrite", "Finished"} => pc' \in {"Rewrite", "Finished"}

C13_PhaseOrder == []C13_State /\ [][C13_Step]_vars

\* A run that registered declarations, lost one to an assignment, saw an
\* address taken, selected the last index and finished its traversal.
C13_Witness ==
  /\ pc = "Finished"
  /\ ~QueryInstanceOnly
  /\ ValidDecls # VisitedDecls
  /\ AddrTakenDecls # {}
  /\ ValidInstanceNum = 2
  /\ TransformationCounter = ValidInstanceNum
  /\ TheDecl \in RewriteCalls

(***************************************************************************)
(* C14.  A declaration disqualified through one use site is disqualified   *)
(* for the whole program, whatever the order of the visits: in a           *)
(* collecting state that the visit of a disqualifying assignment for d     *)
(* leaves behind (d is out of ValidDecls: the visit erased it, or found    *)
(* nothing to erase), no later step puts d into ValidDecls, and the        *)
(* analysis neither counts nor selects d.                                  *)
(***************************************************************************)

\* The visit of BO disqualifies declaration d.
Disqualifies(BO, d) ==
  /\ WellTyped(BO)
  /\ BO.opc \in {"Assign", "AddAssign"}
  /\ isPointerType(TypeOf(BO.lhs, DeclType))
  /\ ~RhsShapeIsSafe(BO)
  /\ LhsDeclaration(BO.lhs) = d

\* The state is one the visit of a disqualifying assignment for d leaves.
LeftByDisqualifyingVisit(d) ==
  /\ pc = "Collect"
  /\ \E BO \in BinaryOperators :
       /\ Disqualifies(BO, d)
       /\ VisitBinaryOperatorOutcome(BO).assert = ""
       /\ VisitBinaryOperatorOutcome(BO).ValidDecls = ValidDecls

C14_Step ==
  \A d \in Decls :
    LeftByDisqualifyingVisit(d) =>
      /\ d \notin ValidDecls'
      /\ pc' = "Analyzed" => TheDecl' # d

C14_DisqualifiedProgramWide == [][C14_Step]_vars

(***************************************************************************)
(* C15.  In every reachable state ValidDecls is a subset of the union of   *)
(* the per-level sets of AllPtrDecls, and that union is VisitedDecls.      *)
(***************************************************************************)
C15_RegistryCoversValid ==
  /\ ValidDecls \subseteq Registered
  /\ Registered = VisitedDecls

\* Three declarations are registered on two levels or more and assignments
\* have removed all of them from ValidDecls.
C15_Witness ==
  /\ pc = "Analyzed"
  /\ Registered = {"a", "b", "c"}
  /\ ValidDecls = {}
  /\ MaxIndirectLevel >= 2

(***************************************************************************)
(* C16.  Registration is idempotent per canonical declaration: while       *)
(* collecting, the visit of any occurrence of a canonical declaration that *)
(* is already in VisitedDecls can take place and changes none of           *)
(* AllPtrDecls, ValidDecls, VisitedDecls and MaxIndirectLevel; and in      *)
(* every reachable state each registered declaration is in the set of      *)
(* exactly one level, once, and that level is at least 1.                  *)
(***************************************************************************)
registry == << AllPtrDecls, ValidDecls, VisitedDecls, MaxIndirectLevel >>

C16_RegisteredOnce ==
  /\ \A DD \in DeclOccurrences :
       (pc = "Collect" /\ getCanonicalDecl(DD) \in VisitedDecls) =>
         /\ ENABLED VisitDeclaratorDecl(DD)
         /\ ~ENABLED (VisitDeclaratorDecl(DD) /\ registry' # registry)
  /\ AllPtrDecls[0] = <<>>
  /\ \A L \in Levels :
       Cardinality(Elems(AllPtrDecls[L])) = Len(AllPtrDecls[L])
  /\ \A L1, L2 \in Levels :
       L1 # L2 => Elems(AllPtrDecls[L1]) \cap Elems(AllPtrDecls[L2]) = {}
  /\ \A d \in VisitedDecls :
       \E L \in 1..MaxLevel : d \in Elems(AllPtrDecls[L])

\* The collector is running, a, b and c are registered on three levels, and
\* an assignment has removed a, which a visit of its redeclaration would
\* put back if it registered again.
C16_Witness ==
  /\ pc = "Collect"
  /\ AllPtrDecls[1] = <<"c">>
  /\ AllPtrDecls[2] = <<"a">>
  /\ AllPtrDecls[3] = <<"b">>
  /\ ValidDecls = {"b", "c"}

(***************************************************************************)
(* C17.  The selection is assigned at most once in a run: TheDecl is unset *)
(* until the analysis step, only that step changes it, once it is set no   *)
(* later step changes it (nor the count), and the selected declaration is  *)
(* the one of exactly one index, the run's TransformationCounter: the      *)
(* running count meets the index once.                                     *)
(***************************************************************************)
C17_State ==
  /\ pc = "Collect" => (TheDecl = NULL /\ ValidInstanceNum = 0)
  /\ (AnalysisDone /\ TheDecl # NULL) =>
       { k \in Counters : SelectedAt(k) = TheDecl } = {TransformationCounter}

C17_Step ==
  /\ TheDecl # NULL => TheDecl' = TheDecl
  /\ TheDecl' # TheDecl => (pc = "Collect" /\ pc' = "Analyzed")
  /\ AnalysisDone => ValidInstanceNum' = ValidInstanceNum

C17_SelectedOnce == []C17_State /\ [][C17_Step]_vars

\* The run selected the second of three eligible declarations, and the
\* selection is the same after the traversal and the diagnostics test.
C17_Witness ==
  /\ pc = "Finished"
  /\ ValidInstanceNum = 3
  /\ TransformationCounter = 2
  /\ TheDecl = SelectedAt(2)
  /\ TheDecl \in RewriteCalls

(***************************************************************************)
(* C18.  MaxIndirectLevel never decreases, and in every reachable state it *)
(* is the greatest level any declaration was registered at, whether the    *)
(* declaration is still in ValidDecls or not, and 0 when nothing is        *)
(* registered.                                                             *)
(***************************************************************************)

\* The greatest member of a non-empty finite set of integers.
Maximum(S) == CHOOSE x \in S : \A y \in S : y <= x

C18_State ==
  /\ MaxIndirectLevel =
       Maximum({0} \cup { L \in Levels : AllPtrDecls[L] # <<>> })
  /\ MaxIndirectLevel =
       Maximum({0} \cup { IndirectionLevel(d) : d \in VisitedDecls })

C18_Step == MaxIndirectLevel' >= MaxIndirectLevel

C18_MaxLevelIsMaximum == []C18_State /\ [][C18_Step]_vars

\* The deepest declaration, a at level 3, was registered first and then lost
\* to an assignment; b and c were registered after it at lower levels.
C18_Witness ==
  /\ pc = "Collect"
  /\ MaxIndirectLevel = 3
  /\ AllPtrDecls[3] = <<"a">>
  /\ AllPtrDecls[1] = <<"b", "c">>
  /\ ValidDecls = {"b", "c"}

(***************************************************************************)
(* C19.  In a run that is not count-only and whose index does not exceed   *)
(* the count, whatever integer the index is (0 and negative ones           *)
(* included), a declaration is selected when the run gets past the range   *)
(* test: the assertion on TheDecl does not fail.                           *)
(***************************************************************************)
C19_SelectionAsserted ==
  (/\ AnalysisDone
   /\ pc # "Analyzed"
   /\ ~QueryInstanceOnly
   /\ ~(TransformationCounter > ValidInstanceNum)) =>
    /\ TheDecl # NULL
    /\ pc \in {"Rewrite", "Finished"}
    /\ AssertMsg = ""

(***************************************************************************)
(* C20.  The three visits of the collector have disjoint effects.  While   *)
(* collecting: the visit of a unary operator changes nothing but           *)
(* AddrTakenDecls, and nothing at all unless it is an address-of whose     *)
(* operand, without parentheses and casts, is a direct reference or a      *)
(* member access; the visit of a binary operator changes no field of the   *)
(* pass other than ValidDecls, which it can only shrink, and a step that   *)
(* shrinks ValidDecls changes nothing else; doAnalysis changes none of the *)
(* collected sets; and a step that changes                                 *)
(* AllPtrDecls, VisitedDecls or MaxIndirectLevel is a registration: it     *)
(* adds a declaration to VisitedDecls and leaves AddrTakenDecls alone.     *)
(***************************************************************************)

\* Everything a unary-operator visit must leave alone.
allButAddrTaken ==
  << inputs, AllPtrDecls, VisitedDecls, ValidDecls, MaxIndirectLevel,
     selection, outcome, AssertMsg, pc >>

\* The fields of the pass a binary-operator visit must leave alone.
fieldsButValid ==
  << inputs, AllPtrDecls, VisitedDecls, AddrTakenDecls, MaxIndirectLevel,
     selection, outcome >>

\* UO is an address-of over a direct reference or a member access.
TakesAddressOfDecl(UO) ==
  /\ UO.opc = "AddrOf"
  /\ LET S == IgnoreParenCasts(UO.sub)
     IN S.ops = <<>> /\ S.kind \in {"DeclRefExpr", "MemberExpr"}

\* Binary operators that take every path through VisitBinaryOperator: the
\* two operators that are no assignments, and the plain and compound
\* assignments of a call, a parenthesised cast of a call, a direct reference
\* or a literal to  a, *a, b[i], s.c  and  *f().
FrameBinaryOperators ==
  { BO \in BinaryOperators :
      \/ BO.opc \notin {"Assign", "AddAssign"}
      \/ /\ BO.lhs \in KeyLhsExprs
         /\ BO.rhs \in KeyRhsExprs
                         \cup { DeclRef(<<>>, "o"),
                                Expr(<<>>, "IntegerLiteral", NULL, <<"int">>) } }

C20_State ==
  pc = "Collect" =>
    /\ \A UO \in UnaryOperators :
         /\ ~ENABLED (VisitUnaryOperator(UO)
                        /\ allButAddrTaken' # allButAddrTaken)
         /\ ~TakesAddressOfDecl(UO) =>
              ~ENABLED (VisitUnaryOperator(UO) /\ vars' # vars)
    /\ \A BO \in FrameBinaryOperators :
         ~ENABLED (VisitBinaryOperator(BO)
                     /\ ~(/\ fieldsButValid' = fieldsButValid
                          /\ ValidDecls' \subseteq ValidDecls))
    /\ \A Counter \in Counters, Query \in BOOLEAN :
         ~ENABLED (RunAnalysis(Counter, Query) /\ collected' # collected)

C20_Step ==
  << AllPtrDecls, VisitedDecls, MaxIndirectLevel >>'
    # << AllPtrDecls, VisitedDecls, MaxIndirectLevel >> =>
      /\ pc = "Collect" /\ pc' = "Collect"
      /\ VisitedDecls' # VisitedDecls
      /\ VisitedDecls \subseteq VisitedDecls'
      /\ AddrTakenDecls' = AddrTakenDecls

\* Seen from the effect: a step that takes a declaration out of ValidDecls
\* changes nothing else, and neither does a step that changes AddrTakenDecls.
C20_Effect ==
  /\ ~(ValidDecls \subseteq ValidDecls') =>
       /\ ValidDecls' \subseteq ValidDecls
       /\ fieldsButValid' = fieldsButValid
       /\ AssertMsg' = AssertMsg
       /\ pc = "Collect" /\ pc' = "Collect"
  /\ AddrTakenDecls' # AddrTakenDecls =>
       /\ AddrTakenDecls \subseteq AddrTakenDecls'
       /\ allButAddrTaken' = allButAddrTaken

C20_DisjointEffects == []C20_State /\ [][C20_Step /\ C20_Effect]_vars

\* Each kind of visit has had its effect: three declarations registered, one
\* removed by an assignment, the addresses of two taken, and the analysis
\* has run on the sets as the collector left them.
C20_Witness ==
  /\ pc = "Analyzed"
  /\ VisitedDecls = {"a", "b", "c"}
  /\ ValidDecls = {"a", "b"}
  /\ AddrTakenDecls = {"b", "c"}
  /\ Registered = VisitedDecls

====
